---- MODULE Spec2Model ----
(***************************************************************************)
(* Model of control/sm/opt_refs.py: class OptimalLoci (constructor,        *)
(* torque, mtpa, mtpv and the computing part of plot).                     *)
(*                                                                         *)
(* Real numbers are fixed-point: the integer v stands for v/Scale.  A      *)
(* float that may be NaN is a record [nan, v].  The motor parameters are   *)
(* Python numbers, so a scalar division by zero raises ZeroDivisionError.  *)
(***************************************************************************)
EXTENDS Integers, Sequences, FiniteSets

\* ------------------------------------------------------------- bounds
\* fixed-point resolution: v stands for v/Scale
Scale == 1000
\* valid inductances range over 1..MaxL (whole units)
MaxL == 2
\* valid flux linkages range over 0..MaxPsi (whole units)
MaxPsi == 2
\* the valid pole-pair count
MaxP == 2
\* i_max ranges over 0..MaxI (whole units)
MaxI == 2
\* N ranges over -1..MaxN
MaxN == 3
\* torque() inputs have components in {-MaxT, 0, MaxT}
MaxT == 1

\* ------------------------------------------------- fixed-point floats
R(v) == [nan |-> FALSE, v |-> v]
NaN == [nan |-> TRUE, v |-> 0]

\* n/d rounded to the nearest integer, d # 0
Round(n, d) ==
    IF d > 0 THEN (2 * n + d) \div (2 * d) ELSE (2 * (-n) + (-d)) \div (2 * (-d))

\* x*y/Scale rounded, computed by parts so that the product stays in range
Mul(x, y) == (x \div Scale) * y + Round((x % Scale) * y, Scale)
Div(x, y) == Round(x * Scale, y)

RECURSIVE Newton(_, _)
Newton(n, x) ==
    LET y == (x + n \div x) \div 2
    IN  IF y >= x THEN x ELSE Newton(n, y)

\* the square root of the integer n >= 0, rounded to the nearest integer
ISqrt(n) ==
    LET r == IF n = 0 THEN 0 ELSE Newton(n, n)
    IN  IF n - r * r > r THEN r + 1 ELSE r

\* the square root of the fixed-point number x >= 0; a large x is halved in
\* scale first so that x*Scale stays in range
RECURSIVE FixSqrt(_)
FixSqrt(x) ==
    IF x > 2000000000 \div Scale THEN 2 * FixSqrt(x \div 4) ELSE ISqrt(x * Scale)

\* np.sqrt on a fixed-point number: NaN for a negative argument
Sqrt(x) == IF x < 0 THEN NaN ELSE R(FixSqrt(x))

FNeg(x) == IF x.nan THEN NaN ELSE R(-x.v)
FAdd(x, y) == IF x.nan \/ y.nan THEN NaN ELSE R(x.v + y.v)
FSub(x, y) == IF x.nan \/ y.nan THEN NaN ELSE R(x.v - y.v)
FMul(x, y) == IF x.nan \/ y.nan THEN NaN ELSE R(Mul(x.v, y.v))
FDiv(x, y) == IF x.nan \/ y.nan THEN NaN ELSE R(Div(x.v, y.v))
FSqrt(x) == IF x.nan THEN NaN ELSE Sqrt(x.v)

\* the complex number re + 1j*im (a current vector: real part i_d, imaginary
\* part i_q); the product 1j*im has the real part 0*im - 1*0, which is NaN
\* when im is NaN, so a NaN imaginary part makes the real part NaN too
Cplx(re, im) == [re |-> IF im.nan THEN NaN ELSE re, im |-> im]

\* np.abs of a complex number
Abs(z) == FSqrt(FAdd(FMul(z.re, z.re), FMul(z.im, z.im)))

\* ------------------------------------------------------- outcomes
NoExc == "none"
Returned(r) == r.exc = NoExc

NoPoint == Cplx(R(0), R(0))

Blank ==
    [op |-> "none", i_max |-> 0, N |-> 0, i |-> NoPoint, exc |-> NoExc,
     locus |-> << >>, T_M |-> << >>, locus2 |-> << >>, T_M2 |-> << >>,
     has_T_M2 |-> FALSE]

Raise(e) == [exc |-> e, locus |-> << >>]
Return(l) == [exc |-> NoExc, locus |-> l]

\* np.linspace(start, stop, num): num samples, the last one exactly stop
linspace(start, stop, num) ==
    IF num < 0 THEN Raise("ValueError")
    ELSE LET div == num - 1
             delta == stop - start
             step == IF div > 0 THEN Round(delta, div) ELSE 0
             y(k) == IF div > 0 /\ k = div THEN stop
                     ELSE IF div > 0 /\ step # 0 THEN k * step + start
                     ELSE IF div > 0 THEN Round(k * delta, div) + start
                     ELSE start
         IN  Return([k \in 1..num |-> y(k - 1)])

\* ---------------------------------------------------------- state
\* self: the solver object (None before construction)
\* res: the last call, its arguments and its outcome
\* built: history variable, the solver object as the constructor left it
\* hist: history variable, for mtpa and for mtpv the outcome of the first
\*       call with the arguments (ProbeI, ProbeN), and whether any other
\*       call has been made since
VARIABLES self, res, built, hist

vars == <<self, res, built, hist>>

None == [made |-> FALSE, p |-> 0, L_d |-> 0, L_q |-> 0, psi_f |-> 0,
         has_i_d_min |-> FALSE, i_d_min |-> 0]

\* the parameter objects handed to the constructor: the physically valid ones,
\* and valid ones with one field made invalid
Inductances == {l * Scale : l \in 1..MaxL}
Fluxes == {f * Scale : f \in 0..MaxPsi}
GoodPars ==
    [p : {MaxP}, L_d : Inductances, L_q : Inductances, psi_f : Fluxes,
     has_i_d_min : {TRUE}, i_d_min : {Scale \div 2}]
    \cup
    [p : {MaxP}, L_d : Inductances, L_q : Inductances, psi_f : Fluxes,
     has_i_d_min : {FALSE}, i_d_min : {0}]
BadPars ==
    UNION {{[q EXCEPT !.p = 0], [q EXCEPT !.L_d = -Scale], [q EXCEPT !.L_d = 0],
            [q EXCEPT !.L_q = 0], [q EXCEPT !.psi_f = -Scale]} :
           q \in {g \in GoodPars : g.L_q = Scale /\ g.has_i_d_min}}
Pars == GoodPars \cup BadPars

Currents == {c * Scale : c \in 0..MaxI}
Counts == -1..MaxN
PlotCounts == {0, MaxN}
Vectors == {Cplx(R(a * Scale), R(b * Scale)) : a, b \in {-MaxT, 0, MaxT}}

\* the arguments of the calls that hist follows
ProbeI == MaxI * Scale
ProbeN == MaxN

\* OptimalLoci.__init__: copies the four parameters, and i_d_min when the
\* parameter object has it
OptimalLoci(pars) ==
    [made |-> TRUE, p |-> pars.p, L_d |-> pars.L_d, L_q |-> pars.L_q,
     psi_f |-> pars.psi_f, has_i_d_min |-> pars.has_i_d_min,
     i_d_min |-> IF pars.has_i_d_min THEN pars.i_d_min ELSE 0]

\* torque with the d-axis inductance used on both axes
torque_same_inductance(s, i) ==
    LET psi == Cplx(FAdd(FMul(R(s.L_d), i.re), R(s.psi_f)), FMul(R(s.L_d), i.im))
        conj == Cplx(psi.re, FNeg(psi.im))
        imag == FAdd(FMul(i.re, conj.im), FMul(i.im, conj.re))
    IN  FMul(R(((3 * Scale) \div 2) * s.p), imag)

\* OptimalLoci.torque for one current vector
torque(s, i) ==
    LET psi == Cplx(FAdd(FMul(R(s.L_d), i.re), R(s.psi_f)), FMul(R(s.L_q), i.im))
        conj == Cplx(psi.re, FNeg(psi.im))
        imag == FAdd(FMul(i.re, conj.im), FMul(i.im, conj.re))
    IN  FMul(R(((3 * Scale) \div 2) * s.p), imag)

\* the SyRM MTPA sample with the two comparisons exchanged: i_d_min becomes a
\* ceiling instead of a floor
mtpa_syrm_point_ceiling(s, x) ==
    LET B(b) == IF b THEN 1 ELSE 0
        i_q == x
        i_d == B(x > s.i_d_min) * s.i_d_min + B(x <= s.i_d_min) * x
    IN  Cplx(R(i_d), R(i_q))

\* one sample of the SyRM MTPA locus: i_q is the sample, i_d the sample
\* floored at i_d_min
mtpa_syrm_point(s, x) ==
    LET B(b) == IF b THEN 1 ELSE 0
        i_q == x
        i_d == B(x < s.i_d_min) * s.i_d_min + B(x >= s.i_d_min) * x
    IN  Cplx(R(i_d), R(i_q))

\* one sample of the IPMSM MTPA locus at the magnitude abs_i
mtpa_ipmsm_point(s, abs_i) ==
    LET i_a == Div(s.psi_f, s.L_d - s.L_q)
        i_d == FSub(R(Round(-i_a, 4)),
                    Sqrt(Round(Mul(i_a, i_a), 16) + Round(Mul(abs_i, abs_i), 2)))
        i_q == FSqrt(FSub(R(Mul(abs_i, abs_i)), FMul(i_d, i_d)))
    IN  Cplx(i_d, i_q)

\* OptimalLoci.mtpa
mtpa(s, i_max, N) ==
    IF s.psi_f = 0
    THEN LET i_d == linspace(0, Div(i_max, Sqrt(2 * Scale).v), N)
         IN  IF ~Returned(i_d) THEN i_d
             ELSE IF ~s.has_i_d_min THEN Raise("AttributeError")
             ELSE Return([k \in 1..Len(i_d.locus) |->
                             mtpa_syrm_point(s, i_d.locus[k])])
    ELSE LET abs_i == linspace(0, i_max, N)
         IN  IF ~Returned(abs_i) THEN abs_i
             ELSE IF s.L_d = s.L_q THEN Raise("ZeroDivisionError")
             ELSE Return([k \in 1..Len(abs_i.locus) |->
                             mtpa_ipmsm_point(s, abs_i.locus[k])])

\* the discriminant b^2 - 4ac of the IPMSM MTPV quadratic at magnitude abs_i
mtpv_disc(s, abs_i) ==
    LET k == Div(s.L_q, s.L_d - s.L_q)
        a == Mul(s.L_d, s.L_d) + Mul(s.L_q, s.L_q)
        b == Mul(Mul(2 * Scale + k, s.psi_f), s.L_d)
        c == Mul(Scale + k, Mul(s.psi_f, s.psi_f))
             - Mul(Mul(s.L_q, abs_i), Mul(s.L_q, abs_i))
    IN  Mul(b, b) - Mul(4 * a, c)

\* one sample of the IPMSM MTPV locus at the magnitude abs_i
mtpv_ipmsm_point(s, abs_i) ==
    LET k == Div(s.L_q, s.L_d - s.L_q)
        a == Mul(s.L_d, s.L_d) + Mul(s.L_q, s.L_q)
        b == Mul(Mul(2 * Scale + k, s.psi_f), s.L_d)
        i_d == FDiv(FSub(R(-b), Sqrt(mtpv_disc(s, abs_i))), R(2 * a))
        i_q == FSqrt(FSub(R(Mul(abs_i, abs_i)), FMul(i_d, i_d)))
    IN  Cplx(i_d, i_q)

\* one sample of the SyRM MTPV locus: abs_i*exp(1j*arctan(L_d/L_q)), with
\* exp(1j*arctan(r)) = (1 + 1j*r)/sqrt(1 + r^2)
mtpv_syrm_point(s, abs_i) ==
    LET r == Div(s.L_d, s.L_q)
        h == Sqrt(Scale + Mul(r, r)).v
    IN  Cplx(R(Mul(abs_i, Div(Scale, h))), R(Mul(abs_i, Div(r, h))))

\* OptimalLoci.mtpv
mtpv(s, i_max, N) ==
    IF s.psi_f = 0
    THEN LET abs_i == linspace(0, i_max, N)
         IN  IF ~Returned(abs_i) THEN abs_i
             ELSE IF s.L_q = 0 THEN Raise("ZeroDivisionError")
             ELSE Return([k \in 1..Len(abs_i.locus) |->
                             mtpv_syrm_point(s, abs_i.locus[k])])
    ELSE IF s.L_d = 0 THEN Raise("ZeroDivisionError")
    ELSE IF Div(s.psi_f, s.L_d) < i_max
    THEN LET abs_i == linspace(Div(s.psi_f, s.L_d), i_max, N)
         IN  IF ~Returned(abs_i) THEN abs_i
             ELSE IF s.L_d = s.L_q THEN Raise("ZeroDivisionError")
             ELSE Return([k \in 1..Len(abs_i.locus) |->
                             mtpv_ipmsm_point(s, abs_i.locus[k])])
    ELSE Raise("UnboundLocalError")

\* ndarray.any() on a locus: some element is not zero (NaN is not zero)
any(l) ==
    \E k \in 1..Len(l) : l[k].re.nan \/ l[k].im.nan \/ l[k].re.v # 0 \/ l[k].im.v # 0

\* OptimalLoci.plot: the loci and torques it computes, and the exception it
\* ends with: a T_M_mtpv of None cannot be divided by base.T (TypeError), and
\* a NaN in T_M_mtpa makes np.max(T_M_mtpa) an axis limit that set_xlim
\* refuses (ValueError); the drawing itself is matplotlib's
plot(s, i_max, N) ==
    LET i_mtpa == mtpa(s, i_max, N)
        i_mtpv == mtpv(s, i_max, N)
        T(l) == [k \in 1..Len(l) |-> torque(s, l[k])]
        base == [Blank EXCEPT !.op = "plot", !.i_max = i_max, !.N = N]
    IN  IF ~Returned(i_mtpa) THEN [base EXCEPT !.exc = i_mtpa.exc]
        ELSE IF ~Returned(i_mtpv)
        THEN [base EXCEPT !.exc = i_mtpv.exc, !.locus = i_mtpa.locus,
                          !.T_M = T(i_mtpa.locus)]
        ELSE IF any(i_mtpv.locus)
        THEN [base EXCEPT !.exc = IF \E k \in 1..Len(i_mtpa.locus) :
                                        torque(s, i_mtpa.locus[k]).nan
                                  THEN "ValueError" ELSE NoExc,
                          !.locus = i_mtpa.locus, !.T_M = T(i_mtpa.locus),
                          !.locus2 = i_mtpv.locus, !.T_M2 = T(i_mtpv.locus),
                          !.has_T_M2 = TRUE]
        ELSE [base EXCEPT !.exc = "TypeError", !.locus = i_mtpa.locus,
                          !.T_M = T(i_mtpa.locus), !.locus2 = i_mtpv.locus]

Unseen == [seen |-> FALSE, gap |-> FALSE, exc |-> NoExc, locus |-> << >>]

\* hist after the call recorded in r
Track(h, r) ==
    [o \in {"mtpa", "mtpv"} |->
        IF r.op = o /\ r.i_max = ProbeI /\ r.N = ProbeN
        THEN IF h[o].seen THEN h[o]
             ELSE [seen |-> TRUE, gap |-> FALSE, exc |-> r.exc, locus |-> r.locus]
        ELSE IF h[o].seen THEN [h[o] EXCEPT !.gap = TRUE] ELSE h[o]]

Init ==
    /\ self = None
    /\ res = Blank
    /\ built = None
    /\ hist = [o \in {"mtpa", "mtpv"} |-> Unseen]

Construct ==
    /\ ~self.made
    /\ \E pars \in Pars :
         /\ self' = OptimalLoci(pars)
         /\ built' = OptimalLoci(pars)
         /\ res' = [Blank EXCEPT !.op = "init"]
    /\ UNCHANGED hist

Torque ==
    /\ self.made
    /\ \E i \in Vectors :
         res' = [Blank EXCEPT !.op = "torque", !.i = i, !.T_M = <<torque(self, i)>>]
    /\ hist' = Track(hist, res')
    /\ UNCHANGED <<self, built>>

\* mtpa that stores a default i_d_min of zero on the object before computing
Mtpa_storing_default ==
    /\ self.made
    /\ self' = [self EXCEPT !.has_i_d_min = TRUE]
    /\ \E i_max \in Currents, N \in Counts :
         LET i == mtpa(self', i_max, N)
         IN  res' = [Blank EXCEPT !.op = "mtpa", !.i_max = i_max, !.N = N,
                                  !.exc = i.exc, !.locus = i.locus]
    /\ hist' = Track(hist, res')
    /\ UNCHANGED built

Mtpa ==
    /\ self.made
    /\ \E i_max \in Currents, N \in Counts :
         LET i == mtpa(self, i_max, N)
         IN  res' = [Blank EXCEPT !.op = "mtpa", !.i_max = i_max, !.N = N,
                                  !.exc = i.exc, !.locus = i.locus]
    /\ hist' = Track(hist, res')
    /\ UNCHANGED <<self, built>>

Mtpv ==
    /\ self.made
    /\ \E i_max \in Currents, N \in Counts :
         LET i == mtpv(self, i_max, N)
         IN  res' = [Blank EXCEPT !.op = "mtpv", !.i_max = i_max, !.N = N,
                                  !.exc = i.exc, !.locus = i.locus]
    /\ hist' = Track(hist, res')
    /\ UNCHANGED <<self, built>>

Plot ==
    /\ self.made
    /\ \E i_max \in Currents, N \in PlotCounts : res' = plot(self, i_max, N)
    /\ hist' = Track(hist, res')
    /\ UNCHANGED <<self, built>>

Next == Construct \/ Torque \/ Mtpa \/ Mtpv \/ Plot

Spec == Init /\ [][Next]_vars

\* ------------------------------------------------------------ claims
\* the parameters the specification calls valid
ValidPars(s) == s.L_d > 0 /\ s.L_q > 0 /\ s.psi_f >= 0 /\ s.p > 0

\* the arguments the specification calls valid
ValidArgs(r) == r.i_max > 0 /\ r.N >= 2

\* agreement of a computed float with a fixed-point value, within 0.01
Tol == Scale \div 100
Close(x, y) == ~x.nan /\ x.v - y <= Tol /\ y - x.v <= Tol

\* the samples the last call took, for the range it samples
Samples(start, stop) == linspace(start, stop, res.N).locus

\* C1: for permanent-magnet parameters with psi_f/L_d >= i_max, mtpv returns
\* an empty locus, as a value and not as an exception.
C1_EmptyMtpvIsReturned ==
    (/\ res.op = "mtpv"
     /\ ValidPars(self) /\ ValidArgs(res)
     /\ self.psi_f > 0
     /\ Div(self.psi_f, self.L_d) >= res.i_max)
    => (Returned(res) /\ Len(res.locus) = 0)

\* C2: for reluctance-motor parameters without i_d_min, mtpa returns N points
\* with i_d = i_q, sampled linearly from 0 to i_max/sqrt(2), with no floor.
C2_MtpaWithoutFloor ==
    (/\ res.op = "mtpa"
     /\ ValidPars(self) /\ ValidArgs(res)
     /\ self.psi_f = 0
     /\ ~self.has_i_d_min)
    => /\ Returned(res)
       /\ Len(res.locus) = res.N
       /\ \A k \in 1..Len(res.locus) :
            /\ res.locus[k].re = res.locus[k].im
            /\ res.locus[k].re =
                 R(Samples(0, Div(res.i_max, Sqrt(2 * Scale).v))[k])

\* C3: for reluctance-motor parameters with i_d_min, mtpa returns exactly N
\* points, every i_d is at least i_d_min: a sample below i_d_min is replaced by
\* i_d_min, a sample at or above it is kept, and none is removed.
C3_MtpaFloor ==
    (/\ res.op = "mtpa"
     /\ self.psi_f = 0
     /\ self.has_i_d_min
     /\ res.N >= 0)
    => /\ Returned(res)
       /\ Len(res.locus) = res.N
       /\ \A k \in 1..Len(res.locus) :
            LET x == Samples(0, Div(res.i_max, Sqrt(2 * Scale).v))[k]
                i_d == res.locus[k].re
            IN  /\ ~i_d.nan
                /\ i_d.v >= self.i_d_min
                /\ x < self.i_d_min => i_d.v = self.i_d_min
                /\ x >= self.i_d_min => i_d.v = x

\* a valid mtpa call on a reluctance motor with i_d_min where one sample was
\* raised to i_d_min and another was kept
C3_Witness ==
    /\ res.op = "mtpa" /\ ValidPars(self) /\ ValidArgs(res)
    /\ self.psi_f = 0 /\ self.has_i_d_min
    /\ Returned(res) /\ Len(res.locus) = res.N
    /\ \E k \in 1..Len(res.locus) :
         res.locus[k].im.v < self.i_d_min /\ res.locus[k].re.v = self.i_d_min
    /\ \E k \in 1..Len(res.locus) :
         res.locus[k].im.v > self.i_d_min /\ res.locus[k].re = res.locus[k].im

\* C4: no solver object exists with L_d <= 0, L_q <= 0, psi_f < 0 or
\* pole_pairs <= 0: construction fails on such parameters.
C4_InvalidParametersRejected == self.made => ValidPars(self)

\* C5: mtpa or mtpv with i_max <= 0 or N < 2 fails and returns no locus, not
\* even a partial one (the name of the error is left open here, so that only
\* a returned locus refutes the statement).
C5_InvalidArgumentsRejected ==
    (/\ res.op \in {"mtpa", "mtpv"}
     /\ ValidPars(self)
     /\ (res.i_max <= 0 \/ res.N < 2))
    => (~Returned(res) /\ res.locus = << >>)

\* C6: in the permanent-magnet branch of mtpv, a negative discriminant at any
\* sample makes the call fail with NumericDomainError.
C6_NegativeDiscriminantFails ==
    (/\ res.op = "mtpv"
     /\ self.psi_f > 0
     /\ self.L_d # 0 /\ self.L_d # self.L_q
     /\ Div(self.psi_f, self.L_d) < res.i_max
     /\ ValidArgs(res)
     /\ \E k \in 1..res.N :
          mtpv_disc(self, Samples(Div(self.psi_f, self.L_d), res.i_max)[k]) < 0)
    => res.exc = "NumericDomainError"

\* C7: for permanent-magnet parameters with psi_f/L_d < i_max, mtpv returns N
\* points, the first of magnitude psi_f/L_d, the last of magnitude i_max, each
\* with i_d the root (-b - sqrt(b^2 - 4ac))/(2a) and i_q = sqrt(|i|^2 - i_d^2)
\* >= 0.
C7_MtpvLocus ==
    (/\ res.op = "mtpv"
     /\ ValidPars(self) /\ ValidArgs(res)
     /\ self.psi_f > 0
     /\ Div(self.psi_f, self.L_d) < res.i_max)
    => /\ Returned(res)
       /\ Len(res.locus) = res.N
       /\ Close(Abs(res.locus[1]), Div(self.psi_f, self.L_d))
       /\ Close(Abs(res.locus[res.N]), res.i_max)
       /\ \A k \in 1..Len(res.locus) :
            LET abs_i == Samples(Div(self.psi_f, self.L_d), res.i_max)[k]
                a == Mul(self.L_d, self.L_d) + Mul(self.L_q, self.L_q)
                b == Mul(Mul(2 * Scale + Div(self.L_q, self.L_d - self.L_q),
                             self.psi_f), self.L_d)
                i_d == res.locus[k].re
                i_q == res.locus[k].im
            IN  /\ mtpv_disc(self, abs_i) >= 0
                /\ i_d = R(Div(-b - Sqrt(mtpv_disc(self, abs_i)).v, 2 * a))
                /\ ~i_q.nan /\ i_q.v >= 0
                /\ i_q = FSqrt(FSub(R(Mul(abs_i, abs_i)), FMul(i_d, i_d)))

\* C8: for all valid parameters and arguments mtpa returns N vectors of
\* non-decreasing magnitude, the last of magnitude i_max; in the
\* permanent-magnet branch the magnitude of point k is the k-th linear sample
\* of |i| from 0 to i_max.
C8_MtpaMagnitudes ==
    (/\ res.op = "mtpa"
     /\ ValidPars(self) /\ ValidArgs(res))
    => /\ Returned(res)
       /\ Len(res.locus) = res.N
       /\ \A k \in 1..Len(res.locus) : ~Abs(res.locus[k]).nan
       /\ \A k \in 1..(Len(res.locus) - 1) :
            Abs(res.locus[k]).v <= Abs(res.locus[k + 1]).v
       /\ Close(Abs(res.locus[res.N]), res.i_max)
       /\ self.psi_f > 0 =>
            \A k \in 1..Len(res.locus) :
              Close(Abs(res.locus[k]), Samples(0, res.i_max)[k])

\* C9: torque(i) = 1.5*p*(psi_f*i_q + (L_d - L_q)*i_d*i_q), and torque(0) = 0.
C9_TorqueFormula ==
    res.op = "torque" =>
        LET i_d == res.i.re.v
            i_q == res.i.im.v
            T_M == res.T_M[1]
        IN  /\ ~T_M.nan
            /\ T_M.v = Mul(((3 * Scale) \div 2) * self.p,
                           Mul(self.psi_f, i_q)
                             + Mul(Mul(self.L_d - self.L_q, i_d), i_q))
            /\ (i_d = 0 /\ i_q = 0) => T_M.v = 0

\* a torque call on a salient permanent-magnet motor with both current
\* components non-zero and a non-zero result
C9_Witness ==
    /\ res.op = "torque"
    /\ ValidPars(self) /\ self.psi_f > 0 /\ self.L_d # self.L_q
    /\ res.i.re.v # 0 /\ res.i.im.v # 0
    /\ res.T_M[1].v # 0

\* C10: the calls leave the stored parameters as the constructor set them, and
\* an mtpa or mtpv call returns what the first call with the same arguments
\* returned, whatever was called in between (followed for the arguments
\* ProbeI, ProbeN).
C10_NoHiddenState ==
    /\ self = built
    /\ \A o \in {"mtpa", "mtpv"} :
         (res.op = o /\ res.i_max = ProbeI /\ res.N = ProbeN /\ hist[o].seen)
         => (res.exc = hist[o].exc /\ res.locus = hist[o].locus)

\* an mtpa call repeated after other calls, among them an mtpv call, that
\* returned a full locus
C10_Witness ==
    /\ res.op = "mtpa" /\ res.i_max = ProbeI /\ res.N = ProbeN
    /\ hist["mtpa"].seen /\ hist["mtpa"].gap /\ hist["mtpv"].seen
    /\ Returned(res) /\ Len(res.locus) = ProbeN
====
